---- MODULE Spec2Model ----
(***************************************************************************)
(* FileAlchemy: the client-side conversion orchestration.                  *)
(*                                                                         *)
(*   - the application store (appReducer, AppContext)                      *)
(*   - the useConversion hook (convertFiles and the file operations)       *)
(*   - the conversion services (ConversionApi, MockConversionApi,          *)
(*     SmartConversionService)                                             *)
(*                                                                         *)
(* JavaScript runs handlers to completion: one action of this module is    *)
(* one handler, timer callback or promise continuation, from the event     *)
(* that starts it up to its next await.                                    *)
(***************************************************************************)
EXTENDS Integers, Sequences, FiniteSets, TLC

(* ----------------------------- bounds ---------------------------------- *)

\* convert() invocations that pass validation, over one behaviour
MaxCalls == 2
\* files in the working batch
MaxFiles == 1
\* SmartConversionService calls over one behaviour
MaxSvcCalls == 2
\* object URLs created by URL.createObjectURL over one behaviour
MaxUrls == 2
\* files in a batch where whole batches are followed through the engines
MaxBatch == 3
\* downloadAll() calls, and clicks on a result's download, over one behaviour
MaxDownloads == 1
\* conversions handed to addToHistory since the history was last empty
MaxConversions == 12

(* --------------------------- constants --------------------------------- *)

\* JavaScript's null / undefined
NULL == "null"

\* generatePreviewUrls: return null (no preview handle); handles are 1, 2, ...
NullUrl == 0

\* useConversion.js: const progressSteps = 20
progressSteps == 20

\* conversionApi.js: for (let progress = 0; progress <= 100; progress += 10)
mockProgressInc == 10

\* App.jsx: prev.slice(0, 9)
historyKeep == 9

ValidationMessage == "Please select files and conversion formats"

(* ------------------------------ files ---------------------------------- *)

\* A File as the code reads it: name (split at its last dot) and media type.
\* NoNameFile is an entry without a name: addFiles takes whatever it is
\* given (Array.from), and file.name.replace then throws a TypeError.
PngFile == [name |-> [stem |-> "a", ext |-> "png"], type |-> "image/png"]
JpgFile == [name |-> [stem |-> "c", ext |-> "jpg"], type |-> "image/jpeg"]
TxtFile == [name |-> [stem |-> "b", ext |-> "txt"], type |-> "text/plain"]
\* a second file named b.txt (picked from another folder)
TxtFileB == [name |-> [stem |-> "b", ext |-> "txt"], type |-> "text/csv"]
\* the name of an entry that has none (file.name is undefined)
NoName == [stem |-> NULL, ext |-> NULL]
NoNameFile == [name |-> NoName, type |-> "text/plain"]

FileUniverse == {PngFile, JpgFile, TxtFile, NoNameFile}

\* Sequences over S of length lo..hi
SeqsOf(S, lo, hi) == UNION {[1..n -> S] : n \in lo..hi}

\* String.prototype.toLowerCase on the format names in use
toLowerCase(s) ==
  CASE s = "PNG" -> "png"
    [] s = "JPG" -> "jpg"
    [] OTHER -> s

\* Math.round of the non-negative rational a / b: halves round up
Round(a, b) == (2 * a + b) \div (2 * b)

\* file.type.startsWith('image/')
IsImage(file) == file.type \in {"image/png", "image/jpeg"}

\* file.name.replace(/\.[^/.]+$/, `.${targetFormat.toLowerCase()}`):
\* the last extension is replaced; a name without one is left as it is.
ReplaceExtension(name, targetFormat) ==
  IF name.ext = NULL THEN name
  ELSE [stem |-> name.stem, ext |-> toLowerCase(targetFormat)]

(* ------------------------------ store ---------------------------------- *)

\* darkMode is getInitialDarkMode(): Init draws it
initialState ==
  [ darkMode          |-> FALSE,
    selectedCategory  |-> NULL,
    sourceFormat      |-> NULL,
    targetFormat      |-> NULL,
    selectedFiles     |-> <<>>,
    previewUrls       |-> <<>>,
    isConverting      |-> FALSE,
    progress          |-> 0,
    conversionResults |-> <<>>,
    notifications     |-> <<>> ]

\* Array.prototype.filter((_, index) => index !== k), k counted from 1 here
RemoveAt(s, k) ==
  [j \in 1..(Len(s) - (IF k \in 1..Len(s) THEN 1 ELSE 0)) |->
     IF j < k THEN s[j] ELSE s[j + 1]]

\* notifications.filter(n => n.id !== id)
RECURSIVE WithoutId(_, _)
WithoutId(ns, id) ==
  IF ns = <<>> THEN <<>>
  ELSE IF Head(ns).id = id THEN WithoutId(Tail(ns), id)
       ELSE <<Head(ns)>> \o WithoutId(Tail(ns), id)

appReducer(state, action) ==
  CASE action.type = "TOGGLE_DARK_MODE" ->
         [state EXCEPT !.darkMode = ~state.darkMode]
    [] action.type = "SET_CONVERSION" ->
         [state EXCEPT !.selectedCategory = action.payload.category,
                       !.sourceFormat = action.payload.sourceFormat,
                       !.targetFormat = action.payload.targetFormat]
    [] action.type = "SET_FILES" ->
         [state EXCEPT !.selectedFiles = action.payload.files,
                       !.previewUrls = action.payload.previews]
    [] action.type = "ADD_FILES" ->
         [state EXCEPT !.selectedFiles = state.selectedFiles \o action.payload.files,
                       !.previewUrls = state.previewUrls \o action.payload.previews]
    [] action.type = "REMOVE_FILE" ->
         [state EXCEPT !.selectedFiles = RemoveAt(state.selectedFiles, action.payload.index),
                       !.previewUrls = RemoveAt(state.previewUrls, action.payload.index)]
    [] action.type = "CLEAR_FILES" ->
         [state EXCEPT !.selectedFiles = <<>>,
                       !.previewUrls = <<>>,
                       !.conversionResults = <<>>]
    [] action.type = "START_CONVERSION" ->
         [state EXCEPT !.isConverting = TRUE,
                       !.progress = 0,
                       !.conversionResults = <<>>]
    [] action.type = "UPDATE_PROGRESS" ->
         [state EXCEPT !.progress = action.payload.progress]
    [] action.type = "COMPLETE_CONVERSION" ->
         [state EXCEPT !.isConverting = FALSE,
                       !.progress = 100,
                       !.conversionResults = action.payload.results]
    [] action.type = "RESET_CONVERSION" ->
         [state EXCEPT !.selectedCategory = NULL,
                       !.sourceFormat = NULL,
                       !.targetFormat = NULL,
                       !.selectedFiles = <<>>,
                       !.previewUrls = <<>>,
                       !.isConverting = FALSE,
                       !.progress = 0,
                       !.conversionResults = <<>>]
    [] action.type = "ADD_NOTIFICATION" ->
         [state EXCEPT !.notifications =
            Append(state.notifications,
                   [id |-> action.id, type |-> action.payload.type,
                    message |-> action.payload.message,
                    title |-> action.payload.title])]
    [] action.type = "REMOVE_NOTIFICATION" ->
         [state EXCEPT !.notifications = WithoutId(state.notifications, action.payload.id)]
    [] action.type = "CLEAR_NOTIFICATIONS" ->
         [state EXCEPT !.notifications = <<>>]
    [] OTHER -> state

(* ------------------------------ state ---------------------------------- *)

VARIABLES
  state,            \* the store: useReducer(appReducer, initialState)
  error,            \* useConversion: const [error, setError] = useState(null)
  nextId,           \* the id the next notification gets (Date.now() + Math.random())
  objectUrls,       \* the browser's object URLs: how many were created (and for
                    \* which file each), which were revoked, in how many calls
  calls,            \* the convertFiles() invocations of the hook and where each stands
  backendAvailable, \* SmartConversionService.backendAvailable
  svc,              \* the SmartConversionService calls and where each stands
  downloads,        \* the downloads triggered (link.click()) and the timers of downloadAll
  conversionHistory, \* App: const [conversionHistory, setConversionHistory] = useState([])
  localStorage      \* the value stored under 'filealchemy-history'

hookVars == <<state, error, nextId, objectUrls, calls>>
svcVars == <<backendAvailable, svc>>
\* what the hook's and the services' operations other than the downloads
\* leave alone
appVars == <<downloads, conversionHistory, localStorage>>
vars == <<state, error, nextId, objectUrls, calls, backendAvailable, svc,
          downloads, conversionHistory, localStorage>>

CallIds == 1..MaxCalls

\* a convertFiles() invocation that has not been made, or has returned
IdleCall(pc) ==
  [pc |-> pc, files |-> <<>>, targetFormat |-> NULL, i |-> 0, step |-> 0,
   results |-> <<>>, emitted |-> <<>>, thrown |-> NULL]

\* dispatch({ type: ADD_NOTIFICATION, payload }): the reducer stamps the id
AddNotification(st, id, type, title, message) ==
  appReducer(st, [type |-> "ADD_NOTIFICATION", id |-> id,
                  payload |-> [type |-> type, message |-> message, title |-> title]])

\* The message texts, as records of their variable parts:
\* `Starting conversion of ${n} file(s) from ${source} to ${target}`
StartingMessage(n, sourceFormat, targetFormat) ==
  [text |-> "Starting conversion", files |-> n,
   from |-> sourceFormat, to |-> targetFormat]

\* `Successfully converted ${results.filter(r => r.success).length} of ${n} files`
SuccessMessage(results) ==
  [text |-> "Successfully converted",
   count |-> Cardinality({k \in 1..Len(results) : results[k].success}),
   of |-> Len(results)]

\* err.message of a caught exception
ErrorMessage(message) == [text |-> message]

\* the message of the TypeError that undefined.replace(...) throws
TypeErrorMessage == "Cannot read properties of undefined (reading 'replace')"

(* ------------------------- useConversion hook -------------------------- *)

\* a generatePreviewUrls that returns the object URLs alone, with no null
\* entry for a file that is not an image
RECURSIVE generatePreviewUrlsImagesOnly(_, _)
generatePreviewUrlsImagesOnly(files, created) ==
  IF files = <<>> THEN <<>>
  ELSE IF IsImage(Head(files))
       THEN <<created + 1>> \o generatePreviewUrlsImagesOnly(Tail(files), created + 1)
       ELSE generatePreviewUrlsImagesOnly(Tail(files), created)

\* generatePreviewUrls(files): an object URL for each image, null otherwise;
\* `created` object URLs exist already
RECURSIVE generatePreviewUrls(_, _)
generatePreviewUrls(files, created) ==
  IF files = <<>> THEN <<>>
  ELSE IF IsImage(Head(files))
       THEN <<created + 1>> \o generatePreviewUrls(Tail(files), created + 1)
       ELSE <<NullUrl>> \o generatePreviewUrls(Tail(files), created)

NumImages(files) == Cardinality({k \in 1..Len(files) : IsImage(files[k])})

\* the URL.revokeObjectURL calls of that loop
NumUrls(urls) == Cardinality({k \in 1..Len(urls) : urls[k] # NullUrl})

\* state.previewUrls.forEach(url => { if (url) URL.revokeObjectURL(url) })
RevokeAll(urls) == {urls[k] : k \in 1..Len(urls)} \ {NullUrl}

\* ValidationFails without the check of targetFormat
ValidationFailsNoTarget(st) ==
  Len(st.selectedFiles) = 0 \/ st.sourceFormat = NULL

\* convertFiles: the guard of its first statement
ValidationFails(st) ==
  Len(st.selectedFiles) = 0 \/ st.sourceFormat = NULL \/ st.targetFormat = NULL

\* convertFiles that calls the engine without dispatching START_CONVERSION
convertFilesWithoutStart ==
  IF ValidationFails(state)
  THEN /\ error' = ValidationMessage
       /\ UNCHANGED <<state, nextId, objectUrls, calls>>
  ELSE \E c \in CallIds :
         /\ calls[c].pc = "idle"
         /\ \A d \in 1..(c - 1) : calls[d].pc # "idle"
         /\ error' = NULL
         /\ state' = AddNotification(state, nextId, "info", "Conversion Started",
                                     StartingMessage(Len(state.selectedFiles),
                                                     state.sourceFormat,
                                                     state.targetFormat))
         /\ nextId' = nextId + 1
         /\ calls' = [calls EXCEPT ![c] =
                        [pc |-> "mock", files |-> state.selectedFiles,
                         targetFormat |-> state.targetFormat, i |-> 0, step |-> 0,
                         results |-> <<>>, emitted |-> <<"info">>,
                         thrown |-> NULL]]
         /\ UNCHANGED objectUrls

\* convertFiles whose start keeps the results of the conversion before
convertFilesKeepsResults ==
  IF ValidationFails(state)
  THEN /\ error' = ValidationMessage
       /\ UNCHANGED <<state, nextId, objectUrls, calls>>
  ELSE \E c \in CallIds :
         /\ calls[c].pc = "idle"
         /\ \A d \in 1..(c - 1) : calls[d].pc # "idle"
         /\ error' = NULL
         /\ state' = AddNotification([state EXCEPT !.isConverting = TRUE, !.progress = 0],
                                     nextId, "info", "Conversion Started",
                                     StartingMessage(Len(state.selectedFiles),
                                                     state.sourceFormat,
                                                     state.targetFormat))
         /\ nextId' = nextId + 1
         /\ calls' = [calls EXCEPT ![c] =
                        [pc |-> "mock", files |-> state.selectedFiles,
                         targetFormat |-> state.targetFormat, i |-> 0, step |-> 0,
                         results |-> <<>>, emitted |-> <<"info">>,
                         thrown |-> NULL]]
         /\ UNCHANGED objectUrls

\* convertFiles, up to its first await: validation, START_CONVERSION, the
\* info notification, and mockConvertFiles up to its first delay
convertFiles ==
  IF ValidationFails(state)
  THEN /\ error' = ValidationMessage
       /\ UNCHANGED <<state, nextId, objectUrls, calls>>
  ELSE \E c \in CallIds :
         /\ calls[c].pc = "idle"
         /\ \A d \in 1..(c - 1) : calls[d].pc # "idle"
         /\ error' = NULL
         /\ state' = AddNotification(appReducer(state, [type |-> "START_CONVERSION"]),
                                     nextId, "info", "Conversion Started",
                                     StartingMessage(Len(state.selectedFiles),
                                                     state.sourceFormat,
                                                     state.targetFormat))
         /\ nextId' = nextId + 1
         /\ calls' = [calls EXCEPT ![c] =
                        [pc |-> "mock", files |-> state.selectedFiles,
                         targetFormat |-> state.targetFormat, i |-> 0, step |-> 0,
                         results |-> <<>>, emitted |-> <<"info">>,
                         thrown |-> NULL]]
         /\ UNCHANGED objectUrls

\* totalProgress that is not divided by the number of files
mockTotalProgressUnscaled(i, step, n) ==
  Round(i * 100 * progressSteps + step * 100, progressSteps)

\* mockConvertFiles: totalProgress of step `step` of file i (0-based) of n
mockTotalProgress(i, step, n) ==
  Round(i * 100 * progressSteps + step * 100, progressSteps * n)

\* mockConvertFiles: the result pushed for `file`
mockResult(file, targetFormat, success) ==
  [originalFile |-> file,
   convertedFileName |-> ReplaceExtension(file.name, targetFormat),
   downloadUrl |-> "blob:mock",
   success |-> success,
   error |-> NULL]

\* mockStep that leaves out the result of a file whose conversion failed
mockStepSkipsFailed(c) ==
  LET call == calls[c]
      n == Len(call.files)
      step == call.step + 1
      file == call.files[call.i + 1]
      st == appReducer(state, [type |-> "UPDATE_PROGRESS",
               payload |-> [progress |-> mockTotalProgress(call.i, step, n)]])
  IN /\ call.pc = "mock"
     /\ state' = st
     /\ IF step < progressSteps
        THEN calls' = [calls EXCEPT ![c].step = step]
        ELSE IF file.name = NoName
        THEN calls' = [calls EXCEPT ![c].pc = "rejected", ![c].step = 0,
                                    ![c].i = 0, ![c].results = <<>>,
                                    ![c].thrown = TypeErrorMessage]
        ELSE \E success \in BOOLEAN :
               LET results == IF success
                              THEN Append(call.results,
                                          mockResult(file, call.targetFormat, success))
                              ELSE call.results
               IN calls' = [calls EXCEPT
                     ![c].results = results,
                     ![c].step = 0,
                     ![c].i = IF call.i + 1 < n THEN call.i + 1 ELSE 0,
                     ![c].pc = IF call.i + 1 < n THEN "mock" ELSE "resolved"]
     /\ UNCHANGED <<error, nextId, objectUrls>>

\* mockConvertFiles: one delay(stepTime) elapses: onProgress; after the last
\* step of a file its result is pushed (or file.name.replace throws), and
\* after the last file the function returns
mockStep(c) ==
  LET call == calls[c]
      n == Len(call.files)
      step == call.step + 1
      file == call.files[call.i + 1]
      st == appReducer(state, [type |-> "UPDATE_PROGRESS",
               payload |-> [progress |-> mockTotalProgress(call.i, step, n)]])
  IN /\ call.pc = "mock"
     /\ state' = st
     /\ IF step < progressSteps
        THEN calls' = [calls EXCEPT ![c].step = step]
        ELSE IF file.name = NoName
        THEN calls' = [calls EXCEPT ![c].pc = "rejected", ![c].step = 0,
                                    ![c].i = 0, ![c].results = <<>>,
                                    ![c].thrown = TypeErrorMessage]
        ELSE \E success \in BOOLEAN :
               LET results == Append(call.results,
                                     mockResult(file, call.targetFormat, success))
               IN calls' = [calls EXCEPT
                     ![c].results = results,
                     ![c].step = 0,
                     ![c].i = IF call.i + 1 < n THEN call.i + 1 ELSE 0,
                     ![c].pc = IF call.i + 1 < n THEN "mock" ELSE "resolved"]
     /\ UNCHANGED <<error, nextId, objectUrls>>

\* convertFilesResolved with an exception after the success notification,
\* which the catch block then handles as well
convertFilesResolvedThenThrows(c) ==
  /\ calls[c].pc = "resolved"
  /\ state' = AddNotification(
                appReducer(state, [type |-> "COMPLETE_CONVERSION",
                                   payload |-> [results |-> calls[c].results]]),
                nextId, "success", "Conversion Complete!",
                SuccessMessage(calls[c].results))
  /\ nextId' = nextId + 1
  /\ calls' = [calls EXCEPT ![c] =
                 [IdleCall("rejected") EXCEPT
                    !.emitted = Append(calls[c].emitted, "success"),
                    !.thrown = "Error"]]
  /\ UNCHANGED <<error, objectUrls>>

\* convertFiles after `await mockConvertFiles(...)`: result.success is true
\* for every value mockConvertFiles returns
convertFilesResolved(c) ==
  /\ calls[c].pc = "resolved"
  /\ state' = AddNotification(
                appReducer(state, [type |-> "COMPLETE_CONVERSION",
                                   payload |-> [results |-> calls[c].results]]),
                nextId, "success", "Conversion Complete!",
                SuccessMessage(calls[c].results))
  /\ nextId' = nextId + 1
  /\ calls' = [calls EXCEPT ![c] =
                 [IdleCall("done") EXCEPT !.emitted = Append(calls[c].emitted, "success")]]
  /\ UNCHANGED <<error, objectUrls>>

\* a catch block that records the error and throws it on to the caller
convertFilesCaughtRethrows(c) ==
  /\ calls[c].pc = "rejected"
  /\ error' = calls[c].thrown
  /\ calls' = [calls EXCEPT ![c] =
                 [IdleCall("threw") EXCEPT !.emitted = calls[c].emitted,
                                           !.thrown = calls[c].thrown]]
  /\ UNCHANGED <<state, nextId, objectUrls>>

\* convertFiles: the catch block; the function then returns normally
convertFilesCaught(c) ==
  /\ calls[c].pc = "rejected"
  /\ error' = calls[c].thrown
  /\ state' = AddNotification(
                appReducer(state, [type |-> "COMPLETE_CONVERSION",
                                   payload |-> [results |-> <<>>]]),
                nextId, "error", "Conversion Failed",
                ErrorMessage(calls[c].thrown))
  /\ nextId' = nextId + 1
  /\ calls' = [calls EXCEPT ![c] =
                 [IdleCall("done") EXCEPT !.emitted = Append(calls[c].emitted, "error")]]
  /\ UNCHANGED objectUrls

addFiles(newFiles) ==
  /\ objectUrls.created + NumImages(newFiles) <= MaxUrls
  /\ Len(state.selectedFiles) + Len(newFiles) <= MaxFiles
  /\ state' = appReducer(state, [type |-> "ADD_FILES",
                 payload |-> [files |-> newFiles,
                              previews |-> generatePreviewUrls(newFiles, objectUrls.created)]])
  /\ objectUrls' = [objectUrls EXCEPT !.created = @ + NumImages(newFiles),
                                      !.files = @ \o SelectSeq(newFiles, IsImage)]
  /\ UNCHANGED <<error, nextId, calls>>

setFiles(files) ==
  /\ objectUrls.created + NumImages(files) <= MaxUrls
  /\ state' = appReducer(state, [type |-> "SET_FILES",
                 payload |-> [files |-> files,
                              previews |-> generatePreviewUrls(files, objectUrls.created)]])
  /\ objectUrls' = [objectUrls EXCEPT !.created = @ + NumImages(files),
                                      !.files = @ \o SelectSeq(files, IsImage)]
  /\ UNCHANGED <<error, nextId, calls>>

\* a removeFile that revokes the object URL and dispatches nothing
removeFileRevokesOnly(index) ==
  /\ index \in 1..Len(state.selectedFiles)
  /\ index <= Len(state.previewUrls) /\ state.previewUrls[index] # NullUrl
  /\ objectUrls' = [objectUrls EXCEPT !.revoked = @ \cup {state.previewUrls[index]},
                                      !.revokes = @ + 1]
  /\ UNCHANGED <<state, error, nextId, calls>>

\* removeFile(index), index counted from 1 here
removeFile(index) ==
  /\ index \in 1..Len(state.selectedFiles)
  /\ objectUrls' =
       IF index <= Len(state.previewUrls) /\ state.previewUrls[index] # NullUrl
       THEN [objectUrls EXCEPT !.revoked = @ \cup {state.previewUrls[index]},
                               !.revokes = @ + 1]
       ELSE objectUrls
  /\ state' = appReducer(state, [type |-> "REMOVE_FILE", payload |-> [index |-> index]])
  /\ UNCHANGED <<error, nextId, calls>>

clearFiles ==
  /\ objectUrls' = [objectUrls EXCEPT !.revoked = @ \cup RevokeAll(state.previewUrls),
                                      !.revokes = @ + NumUrls(state.previewUrls)]
  /\ state' = appReducer(state, [type |-> "CLEAR_FILES"])
  /\ error' = NULL
  /\ UNCHANGED <<nextId, calls>>

setConversion(category, sourceFormat, targetFormat) ==
  /\ state' = appReducer(state, [type |-> "SET_CONVERSION",
                 payload |-> [category |-> category, sourceFormat |-> sourceFormat,
                              targetFormat |-> targetFormat]])
  /\ error' = NULL
  /\ UNCHANGED <<nextId, objectUrls, calls>>

\* a reset that dispatches CLEAR_FILES in place of RESET_CONVERSION
resetConversionClearsFiles ==
  /\ objectUrls' = [objectUrls EXCEPT !.revoked = @ \cup RevokeAll(state.previewUrls),
                                      !.revokes = @ + NumUrls(state.previewUrls)]
  /\ state' = appReducer(state, [type |-> "CLEAR_FILES"])
  /\ error' = NULL
  /\ UNCHANGED <<nextId, calls>>

resetConversion ==
  /\ objectUrls' = [objectUrls EXCEPT !.revoked = @ \cup RevokeAll(state.previewUrls),
                                      !.revokes = @ + NumUrls(state.previewUrls)]
  /\ state' = appReducer(state, [type |-> "RESET_CONVERSION"])
  /\ error' = NULL
  /\ UNCHANGED <<nextId, calls>>

\* `Downloaded ${result.convertedFileName}`
DownloadedMessage(result) == [text |-> "Downloaded", name |-> result.convertedFileName]

\* downloadResult(result): the link is clicked and the notification added.
\* `timer` is the timer of downloadAll that made the call, <<0, 0>> for a
\* click on the result itself.
Download(result, timer) ==
  /\ downloads' = [downloads EXCEPT
                     !.done = Append(@, [result |-> result, timer |-> timer]),
                     !.timers = @ \ {timer}]
  /\ state' = AddNotification(state, nextId, "success", "Download Complete",
                              DownloadedMessage(result))
  /\ nextId' = nextId + 1
  /\ UNCHANGED <<error, objectUrls, calls, conversionHistory, localStorage>>

\* the result's own download button (ConversionResults: onDownload)
downloadResult(k) ==
  /\ k \in 1..Len(state.conversionResults)
  /\ Cardinality({j \in 1..Len(downloads.done) : downloads.done[j].timer = <<0, 0>>})
       < MaxDownloads
  /\ Download(state.conversionResults[k], <<0, 0>>)

\* a downloadAll that sets a timer for every result
TimersOfEveryResult(d, results) == {<<d, k>> : k \in 1..Len(results)}

\* the timers downloadAll sets for its d-th call: one for each result that
\* has success = true, at index * 100 ms
TimersOf(d, results) == {<<d, k>> : k \in {j \in 1..Len(results) : results[j].success}}

\* downloadAll(): the results are captured by the timers' closures
downloadAll ==
  /\ Len(downloads.calls) < MaxDownloads
  /\ downloads' = [downloads EXCEPT
                     !.calls = Append(@, state.conversionResults),
                     !.timers = @ \cup TimersOf(Len(downloads.calls) + 1,
                                                state.conversionResults)]
  /\ UNCHANGED <<state, error, nextId, objectUrls, calls, conversionHistory, localStorage>>

\* a timer of downloadAll fires: those of one call fire in the order of
\* their delays, index * 100
downloadTimer(d, k) ==
  /\ <<d, k>> \in downloads.timers
  /\ \A j \in 1..(k - 1) : <<d, j>> \notin downloads.timers
  /\ Download(downloads.calls[d][k], <<d, k>>)

\* an auto-remove effect that sets its timer only when a notification was
\* added, not when one was removed
autoRemoveOnlyNewest ==
  /\ Len(state.notifications) > 0
  /\ state.notifications[Len(state.notifications)].id = nextId - 1
  /\ state' = appReducer(state, [type |-> "REMOVE_NOTIFICATION",
                 payload |-> [id |-> state.notifications[Len(state.notifications)].id]])
  /\ UNCHANGED <<error, nextId, objectUrls, calls>>

\* AppProvider: the timer of the auto-remove effect fires. The effect runs
\* again whenever state.notifications changes, clearing the timer it set
\* before, so the one timer alive is for the latest notification.
autoRemoveNotification ==
  /\ Len(state.notifications) > 0
  /\ state' = appReducer(state, [type |-> "REMOVE_NOTIFICATION",
                 payload |-> [id |-> state.notifications[Len(state.notifications)].id]])
  /\ UNCHANGED <<error, nextId, objectUrls, calls>>

(* ------------------------ conversion services ------------------------- *)

SvcIds == 1..MaxSvcCalls

\* The progress values the server reports for a job. The server is taken to
\* keep its side of the contract: a job's progress never goes down, and a
\* completed job is at 100.
ServerProgress == {0, 50, 100}

\* files.find(f => f.name === name): the first such file, or undefined
NoFile == [name |-> NoName, type |-> NULL]

RECURSIVE Find(_, _)
Find(files, name) ==
  IF files = <<>> THEN NoFile
  ELSE IF Head(files).name = name THEN Head(files)
       ELSE Find(Tail(files), name)

\* getDownloadUrl / `${API_BASE_URL.replace('/api', '')}${item.download_url}`
AbsoluteUrl(path) ==
  IF path = "/api/download/out" THEN "http://localhost:5000/api/download/out" ELSE path

\* One entry of the server's results for an uploaded file
ServerItem(file, ok) ==
  [original_filename |-> file.name,
   converted_filename |-> IF ok THEN [stem |-> file.name.stem, ext |-> "out"] ELSE NoName,
   download_url |-> IF ok THEN "/api/download/out" ELSE NULL,
   success |-> ok,
   error |-> IF ok THEN NULL ELSE "conversion error"]

\* The results a completed job may carry: one entry per uploaded file
ServerResults(files) ==
  {[k \in 1..Len(files) |-> ServerItem(files[k], oks[k])] :
     oks \in [1..Len(files) -> BOOLEAN]}

\* The orders in which the server lists the outcomes of n uploaded files:
\* as uploaded, or the last one first. order[k] is the upload that entry k
\* of the list is the outcome of.
ServerOrders(n) == {[k \in 1..n |-> k], [k \in 1..n |-> n + 1 - k]}

\* The replies to GET /status/{job_id} for a job whose progress is `job`;
\* "error" is a request that fails (network error or non-2xx). `order` is
\* the server's knowledge, not part of the reply the client reads.
StatusReplies(files, job) ==
  {[status |-> st, progress |-> p, results |-> <<>>, order |-> <<>>] :
     st \in {"pending", "processing"}, p \in {q \in ServerProgress : q >= job}}
  \cup {[status |-> "completed", progress |-> 100,
         results |-> [k \in 1..Len(files) |-> rs[order[k]]], order |-> order] :
     rs \in ServerResults(files), order \in ServerOrders(Len(files))}
  \cup {[status |-> st, progress |-> job, results |-> <<>>, order |-> <<>>] :
     st \in {"failed", "cancelled", "error"}}

\* ConversionApi.convertFiles: processedResults
processItem(files, item) ==
  [originalFile |-> Find(files, item.original_filename),
   convertedFileName |-> item.converted_filename,
   downloadUrl |-> IF item.download_url # NULL THEN AbsoluteUrl(item.download_url) ELSE NULL,
   success |-> item.success,
   error |-> item.error]

processedResults(files, items) ==
  [k \in 1..Len(items) |-> processItem(files, items[k])]

\* MockConversionApi.convertFiles: the result pushed for `file`
mockApiResult(file, targetFormat, success) ==
  [originalFile |-> file,
   convertedFileName |-> ReplaceExtension(file.name, targetFormat),
   downloadUrl |-> "blob:mock",
   success |-> success,
   error |-> NULL]

\* `Successfully converted ${results.filter(r => r.success).length} of
\* ${results.length} files`
ConvertedMessage(results) ==
  [text |-> "Successfully converted",
   converted |-> Cardinality({k \in 1..Len(results) : results[k].success}),
   of |-> Len(results)]

\* ConversionApi.convertFiles: the value it returns
apiReturn(results) ==
  [success |-> TRUE, results |-> results, message |-> ConvertedMessage(results)]

\* a return value whose success flag says that no file failed
mockApiReturnAllOrNothing(results) ==
  [success |-> \A k \in 1..Len(results) : results[k].success,
   results |-> results, message |-> ConvertedMessage(results)]

\* MockConversionApi.convertFiles: the value it returns
mockApiReturn(results) ==
  [success |-> TRUE, results |-> results, message |-> ConvertedMessage(results)]

\* MockConversionApi.convertFiles: totalProgress at `progress` of file i of n
mockApiTotalProgress(i, progress, n) == Round(i * 100 + progress, n)

\* a SmartConversionService call that has not been made. Besides the call's
\* arguments and locals, a call records what it has done so far: the
\* requests it issued, the last status reply (and the order of the outcomes
\* of a completed job), the status requests and poll timers outstanding,
\* how the promise of pollConversionStatus settled, the last value given to
\* onProgress, the arguments the mock engine got, and whether a health
\* probe had already failed when the call was made.
NoArgs == [files |-> <<>>, sourceFormat |-> NULL, targetFormat |-> NULL]

IdleSvc ==
  [kind |-> "none", pc |-> "idle", args |-> NoArgs, isBackendAvailable |-> NULL,
   job |-> 0, i |-> 0, progress |-> 0,
   results |-> <<>>, order |-> <<>>, reported |-> <<>>, lastStatus |-> "none",
   healthChecks |-> 0, uploads |-> 0, mockCalls |-> 0, mockArgs |-> NoArgs,
   requests |-> 0, timers |-> 0, pollSettled |-> "none",
   afterFailedProbe |-> FALSE, outcome |-> "none", result |-> <<>>]

\* some call's checkHealth() has thrown
SomeProbeFailed ==
  \E c \in SvcIds : svc[c].healthChecks > 0 /\ svc[c].isBackendAvailable = "false"

\* onProgress(value): the caller's callback receives the value
Report(call, value) == [call EXCEPT !.reported = <<value>>]

\* MockConversionApi.convertFiles is entered, up to its first timeout
EnterMock(call) ==
  [call EXCEPT !.pc = "mock", !.i = 0, !.progress = 0, !.results = <<>>,
               !.mockCalls = @ + 1, !.mockArgs = call.args]

\* ConversionApi.convertFiles is entered: startConversion posts the upload
EnterBackend(call) == [call EXCEPT !.pc = "upload", !.uploads = @ + 1]

\* SmartConversionService.convertFiles: what follows
\* `await this.checkBackendAvailability()` once it has its answer
AfterAvailability(call, isBackendAvailable) ==
  LET known == [call EXCEPT !.isBackendAvailable = isBackendAvailable]
  IN IF isBackendAvailable = "true" THEN EnterBackend(known) ELSE EnterMock(known)

\* SmartConversionService.getSupportedFormats: the same point
AfterAvailabilityFormats(call, isBackendAvailable) ==
  LET known == [call EXCEPT !.isBackendAvailable = isBackendAvailable]
  IN IF isBackendAvailable = "true" THEN [known EXCEPT !.pc = "formats"]
     ELSE [known EXCEPT !.pc = "done", !.outcome = "resolved"]

\* SmartConversionService.convertFiles: the catch block around the backend flow
FallBack(call) == EnterMock(call)

\* a catch block that leaves this.backendAvailable as it was
AvailabilityAfterFallBackKept(memo) == memo

\* the value this.backendAvailable has after that catch block
AvailabilityAfterFallBack(memo) == "false"

\* checkBackendAvailability: the memo after checkHealth() answered
AvailabilityAfterProbe(memo, ok) == IF ok THEN "true" ELSE "false"

\* checkBackendAvailability: whether a call probes the backend
MustProbe(memo) == memo = NULL

\* SmartConversionService.convertFiles(files, ...) is called
svcConvertFiles(c, files, sourceFormat, targetFormat) ==
  /\ svc[c].pc = "idle"
  /\ \A d \in 1..(c - 1) : svc[d].pc # "idle"
  /\ LET call == [IdleSvc EXCEPT
                    !.kind = "convert",
                    !.args = [files |-> files, sourceFormat |-> sourceFormat,
                              targetFormat |-> targetFormat],
                    !.afterFailedProbe = SomeProbeFailed]
     IN svc' = [svc EXCEPT ![c] =
                  IF MustProbe(backendAvailable)
                  THEN [call EXCEPT !.pc = "health", !.healthChecks = @ + 1]
                  ELSE AfterAvailability(call, backendAvailable)]
  /\ UNCHANGED backendAvailable

\* SmartConversionService.getSupportedFormats() is called
svcGetSupportedFormats(c) ==
  /\ svc[c].pc = "idle"
  /\ \A d \in 1..(c - 1) : svc[d].pc # "idle"
  /\ LET call == [IdleSvc EXCEPT !.kind = "formats",
                                  !.afterFailedProbe = SomeProbeFailed]
     IN svc' = [svc EXCEPT ![c] =
                  IF MustProbe(backendAvailable)
                  THEN [call EXCEPT !.pc = "health", !.healthChecks = @ + 1]
                  ELSE AfterAvailabilityFormats(call, backendAvailable)]
  /\ UNCHANGED backendAvailable

\* checkHealth() answers: ok, or it throws
healthReply(c, ok) ==
  /\ svc[c].pc = "health"
  /\ backendAvailable' = AvailabilityAfterProbe(backendAvailable, ok)
  /\ svc' = [svc EXCEPT ![c] =
       IF svc[c].kind = "convert"
       THEN AfterAvailability(svc[c], IF ok THEN "true" ELSE "false")
       ELSE AfterAvailabilityFormats(svc[c], IF ok THEN "true" ELSE "false")]

\* ConversionApi.getSupportedFormats() answers or throws: the formats, or null
formatsReply(c) ==
  /\ svc[c].pc = "formats"
  /\ svc' = [svc EXCEPT ![c].pc = "done", ![c].outcome = "resolved"]
  /\ UNCHANGED backendAvailable

\* POST /upload answers: a job id, and pollConversionStatus calls poll(),
\* which sends the first status request; or the upload throws
uploadReply(c, ok) ==
  /\ svc[c].pc = "upload"
  /\ IF ok
     THEN /\ svc' = [svc EXCEPT ![c].pc = "status", ![c].requests = @ + 1]
          /\ UNCHANGED backendAvailable
     ELSE /\ svc' = [svc EXCEPT ![c] = FallBack([svc[c] EXCEPT !.lastStatus = "error"])]
          /\ backendAvailable' = AvailabilityAfterFallBack(backendAvailable)

\* poll() that goes on polling after a status it does not know
pollDecisionPollsUnknown(status) ==
  CASE status = "completed" -> "resolve"
    [] status = "failed" -> "reject"
    [] status = "error" -> "reject"
    [] OTHER -> "again"

\* poll(): what it does with the answer of getConversionStatus: resolve the
\* promise, reject it, or set the timer of the next poll. "error" is the
\* request throwing, which the catch turns into a rejection.
pollDecision(status) ==
  CASE status = "completed" -> "resolve"
    [] status = "failed" -> "reject"
    [] status \in {"processing", "pending"} -> "again"
    [] OTHER -> "reject"

\* pollConversionStatus, poll(): getConversionStatus(jobId) answers a status
\* request that is outstanding; onProgress is told unless the request threw
statusReply(c, reply) ==
  /\ svc[c].requests > 0
  /\ LET answered == [svc[c] EXCEPT !.lastStatus = reply.status, !.requests = @ - 1]
         call == IF reply.status = "error" THEN answered
                 ELSE Report(answered, reply.progress)
         decision == pollDecision(reply.status)
     IN CASE decision = "resolve" ->
               /\ svc' = [svc EXCEPT ![c] =
                    [call EXCEPT
                       !.pc = "done", !.outcome = "resolved", !.job = reply.progress,
                       !.order = reply.order, !.pollSettled = "resolved",
                       !.results = processedResults(call.args.files, reply.results),
                       !.result =
                         <<apiReturn(processedResults(call.args.files, reply.results))>>]]
               /\ UNCHANGED backendAvailable
          [] decision = "again" ->
               /\ svc' = [svc EXCEPT ![c] =
                    [call EXCEPT !.pc = "timer", !.job = reply.progress,
                                 !.timers = @ + 1]]
               /\ UNCHANGED backendAvailable
          [] OTHER ->
               /\ svc' = [svc EXCEPT ![c] =
                    FallBack([call EXCEPT !.pollSettled = "rejected"])]
               /\ backendAvailable' = AvailabilityAfterFallBack(backendAvailable)

\* pollConversionStatus: setTimeout(poll, pollInterval) fires and poll()
\* sends the next status request
pollTimer(c) ==
  /\ svc[c].timers > 0
  /\ svc' = [svc EXCEPT ![c].pc = "status", ![c].timers = @ - 1,
                        ![c].requests = @ + 1]
  /\ UNCHANGED backendAvailable

\* MockConversionApi.convertFiles: one 50 ms timeout elapses: onProgress;
\* after progress 100 of a file its result is pushed (or file.name.replace
\* throws), and after the last file the function returns
mockApiTick(c) ==
  LET files == svc[c].args.files
      n == Len(files)
      call == Report(svc[c], mockApiTotalProgress(svc[c].i, svc[c].progress, n))
      file == files[call.i + 1]
  IN /\ svc[c].pc = "mock"
     /\ IF call.progress + mockProgressInc <= 100
        THEN svc' = [svc EXCEPT ![c] = [call EXCEPT !.progress = @ + mockProgressInc]]
        ELSE IF file.name = NoName
        THEN svc' = [svc EXCEPT ![c] =
               [call EXCEPT !.pc = "done", !.outcome = "rejected", !.results = <<>>,
                            !.i = 0, !.progress = 0]]
        ELSE \E success \in BOOLEAN :
               LET results == Append(call.results, mockApiResult(file, call.args.targetFormat, success))
               IN svc' = [svc EXCEPT ![c] =
                    [call EXCEPT
                       !.results = results, !.progress = 0,
                       !.i = IF call.i + 1 < n THEN call.i + 1 ELSE 0,
                       !.pc = IF call.i + 1 < n THEN "mock" ELSE "done",
                       !.outcome = IF call.i + 1 < n THEN "none" ELSE "resolved",
                       !.result = IF call.i + 1 < n THEN <<>>
                                  ELSE <<mockApiReturn(results)>>]]
     /\ UNCHANGED backendAvailable

(* --------------------------- specification ----------------------------- *)

Init ==
  /\ \E darkMode \in BOOLEAN : state = [initialState EXCEPT !.darkMode = darkMode]
  /\ error = NULL
  /\ nextId = 1
  /\ objectUrls = [created |-> 0, files |-> <<>>, revoked |-> {}, revokes |-> 0]
  /\ calls = [c \in CallIds |-> IdleCall("idle")]
  /\ backendAvailable = NULL
  /\ svc = [c \in SvcIds |-> IdleSvc]
  /\ downloads = [calls |-> <<>>, timers |-> {}, done |-> <<>>]
  /\ conversionHistory = <<>>
  /\ localStorage = <<>>

\* The inputs of the orchestrator's operations. Files without a preview
\* (the preview handles have a specification of their own), one well-formed
\* and one whose conversion throws; a selection sets both formats or leaves
\* the target open.
BatchInputs(lo) == SeqsOf({TxtFile, NoNameFile}, lo, MaxFiles)

Next ==
  \/ convertFiles /\ UNCHANGED <<svcVars, appVars>>
  \/ \E c \in CallIds : mockStep(c) /\ UNCHANGED <<svcVars, appVars>>
  \/ \E c \in CallIds : convertFilesResolved(c) /\ UNCHANGED <<svcVars, appVars>>
  \/ \E c \in CallIds : convertFilesCaught(c) /\ UNCHANGED <<svcVars, appVars>>
  \/ \E fs \in BatchInputs(1) : addFiles(fs) /\ UNCHANGED <<svcVars, appVars>>
  \/ \E fs \in BatchInputs(0) : setFiles(fs) /\ UNCHANGED <<svcVars, appVars>>
  \/ \E k \in 1..MaxFiles : removeFile(k) /\ UNCHANGED <<svcVars, appVars>>
  \/ clearFiles /\ UNCHANGED <<svcVars, appVars>>
  \/ \E t \in {"JPG", NULL} : setConversion("images", "PNG", t) /\ UNCHANGED <<svcVars, appVars>>
  \/ resetConversion /\ UNCHANGED <<svcVars, appVars>>

Spec == Init /\ [][Next]_vars

\* The conversion services, called by a client that may have several calls
\* outstanding at once.
NextSvc ==
  \/ \E c \in SvcIds, fs \in BatchInputs(1) :
       svcConvertFiles(c, fs, "PNG", "JPG") /\ UNCHANGED <<hookVars, appVars>>
  \/ \E c \in SvcIds : svcGetSupportedFormats(c) /\ UNCHANGED <<hookVars, appVars>>
  \/ \E c \in SvcIds, ok \in BOOLEAN : healthReply(c, ok) /\ UNCHANGED <<hookVars, appVars>>
  \/ \E c \in SvcIds : formatsReply(c) /\ UNCHANGED <<hookVars, appVars>>
  \/ \E c \in SvcIds, ok \in BOOLEAN : uploadReply(c, ok) /\ UNCHANGED <<hookVars, appVars>>
  \/ \E c \in SvcIds : \E reply \in StatusReplies(svc[c].args.files, svc[c].job) :
       statusReply(c, reply) /\ UNCHANGED <<hookVars, appVars>>
  \/ \E c \in SvcIds : pollTimer(c) /\ UNCHANGED <<hookVars, appVars>>
  \/ \E c \in SvcIds : mockApiTick(c) /\ UNCHANGED <<hookVars, appVars>>

\* The services read nothing of the store: it stays as constructed.
InitSvc == Init /\ state = initialState

SpecSvc == InitSvc /\ [][NextSvc]_vars

\* The services under the scheduling the runtime gives them: a request that
\* was sent is answered (by a response, or by an error), a timer that was set
\* fires. What the server answers stays its own choice.
FairSvc ==
  \A c \in SvcIds :
    /\ WF_vars((\E ok \in BOOLEAN : healthReply(c, ok)) /\ UNCHANGED <<hookVars, appVars>>)
    /\ WF_vars(formatsReply(c) /\ UNCHANGED <<hookVars, appVars>>)
    /\ WF_vars((\E ok \in BOOLEAN : uploadReply(c, ok)) /\ UNCHANGED <<hookVars, appVars>>)
    /\ WF_vars((\E reply \in StatusReplies(svc[c].args.files, svc[c].job) :
                  statusReply(c, reply)) /\ UNCHANGED <<hookVars, appVars>>)
    /\ WF_vars(pollTimer(c) /\ UNCHANGED <<hookVars, appVars>>)
    /\ WF_vars(mockApiTick(c) /\ UNCHANGED <<hookVars, appVars>>)

SpecSvcFair == InitSvc /\ [][NextSvc]_vars /\ FairSvc

(* ------------------- whole batches, one call at a time ----------------- *)

\* ConversionPage: const canConvert = ...
canConvert(st) ==
  /\ Len(st.selectedFiles) > 0
  /\ st.sourceFormat # NULL
  /\ st.targetFormat # NULL
  /\ ~st.isConverting

\* ConversionPage: the page shows the progress and the results instead of
\* the file and format selection
ResultsView(st) == st.isConverting \/ Len(st.conversionResults) > 0

\* Batches of up to MaxBatch entries: two files of the same name and an
\* entry without one
BatchFiles == {TxtFile, TxtFileB, NoNameFile}

Batches(lo) == SeqsOf(BatchFiles, lo, MaxBatch)

\* every entry of the batch is a File: it has a name
WellFormed(files) == \A k \in 1..Len(files) : files[k].name # NoName

\* nothing of the hook has been used / no service call has been made
HookUnused ==
  /\ state = [initialState EXCEPT !.darkMode = state.darkMode]
  /\ calls = [c \in CallIds |-> IdleCall("idle")]
  /\ error = NULL

SvcUnused == svc = [c \in SvcIds |-> IdleSvc]

\* Whole batches through the engines. The hook and the services share no
\* state: a behaviour follows batches through the hook, or one batch
\* through one SmartConversionService.convertFiles call. The hook is driven
\* as the conversion page drives it: files and formats are chosen in the
\* selection view, the Convert button exists while canConvert, and the
\* results view offers the reset.
NextBatch ==
  \/ /\ SvcUnused /\ ~ResultsView(state)
     /\ \E fs \in Batches(0) : setFiles(fs)
     /\ UNCHANGED <<svcVars, appVars>>
  \/ /\ SvcUnused /\ ~ResultsView(state)
     /\ setConversion("images", "PNG", "JPG")
     /\ UNCHANGED <<svcVars, appVars>>
  \/ SvcUnused /\ canConvert(state) /\ convertFiles /\ UNCHANGED <<svcVars, appVars>>
  \/ SvcUnused /\ (\E c \in CallIds : mockStep(c)) /\ UNCHANGED <<svcVars, appVars>>
  \/ SvcUnused /\ (\E c \in CallIds : convertFilesResolved(c)) /\ UNCHANGED <<svcVars, appVars>>
  \/ SvcUnused /\ (\E c \in CallIds : convertFilesCaught(c)) /\ UNCHANGED <<svcVars, appVars>>
  \/ /\ SvcUnused /\ Len(state.conversionResults) > 0 /\ ~state.isConverting
     /\ resetConversion
     /\ UNCHANGED <<svcVars, appVars>>
  \/ /\ HookUnused
     /\ \E fs \in Batches(1) : svcConvertFiles(1, fs, "PNG", "JPG")
     /\ UNCHANGED <<hookVars, appVars>>
  \/ HookUnused /\ (\E ok \in BOOLEAN : healthReply(1, ok)) /\ UNCHANGED <<hookVars, appVars>>
  \/ HookUnused /\ (\E ok \in BOOLEAN : uploadReply(1, ok)) /\ UNCHANGED <<hookVars, appVars>>
  \/ /\ HookUnused
     /\ \E reply \in StatusReplies(svc[1].args.files, svc[1].job) : statusReply(1, reply)
     /\ UNCHANGED <<hookVars, appVars>>
  \/ HookUnused /\ pollTimer(1) /\ UNCHANGED <<hookVars, appVars>>
  \/ HookUnused /\ mockApiTick(1) /\ UNCHANGED <<hookVars, appVars>>

SpecBatch == Init /\ [][NextBatch]_vars

(* ----------------------- notifications and expiry --------------------- *)

\* The store's notifications with their expiry. Conversions started from
\* the conversion page add the notifications; the timer of the auto-remove
\* effect fires once its delay has passed with the notifications unchanged.
NextNotify ==
  \/ /\ ~ResultsView(state)
     /\ \E fs \in BatchInputs(0) : setFiles(fs)
     /\ UNCHANGED <<svcVars, appVars>>
  \/ ~ResultsView(state) /\ setConversion("images", "PNG", "JPG") /\ UNCHANGED <<svcVars, appVars>>
  \/ canConvert(state) /\ convertFiles /\ UNCHANGED <<svcVars, appVars>>
  \/ \E c \in CallIds : mockStep(c) /\ UNCHANGED <<svcVars, appVars>>
  \/ \E c \in CallIds : convertFilesResolved(c) /\ UNCHANGED <<svcVars, appVars>>
  \/ \E c \in CallIds : convertFilesCaught(c) /\ UNCHANGED <<svcVars, appVars>>
  \/ /\ Len(state.conversionResults) > 0 /\ ~state.isConverting
     /\ resetConversion
     /\ UNCHANGED <<svcVars, appVars>>
  \/ autoRemoveNotification /\ UNCHANGED <<svcVars, appVars>>

SpecNotify ==
  Init /\ [][NextNotify]_vars /\ WF_vars(autoRemoveNotification /\ UNCHANGED <<svcVars, appVars>>)

(* ------------------------------ downloads ------------------------------ *)

\* Conversions started from the conversion page, and the downloads of their
\* results; the timers of a downloadAll() may fire after a reset or during
\* the next conversion.
NextDownload ==
  \/ /\ ~ResultsView(state)
     /\ \E fs \in SeqsOf({TxtFile, NoNameFile}, 0, MaxBatch) : setFiles(fs)
     /\ UNCHANGED <<svcVars, appVars>>
  \/ /\ ~ResultsView(state) /\ setConversion("images", "PNG", "JPG")
     /\ UNCHANGED <<svcVars, appVars>>
  \/ canConvert(state) /\ convertFiles /\ UNCHANGED <<svcVars, appVars>>
  \/ \E c \in CallIds : mockStep(c) /\ UNCHANGED <<svcVars, appVars>>
  \/ \E c \in CallIds : convertFilesResolved(c) /\ UNCHANGED <<svcVars, appVars>>
  \/ \E c \in CallIds : convertFilesCaught(c) /\ UNCHANGED <<svcVars, appVars>>
  \/ /\ Len(state.conversionResults) > 0 /\ ~state.isConverting
     /\ resetConversion
     /\ UNCHANGED <<svcVars, appVars>>
  \/ downloadAll /\ UNCHANGED svcVars
  \/ \E k \in 1..MaxBatch : downloadResult(k) /\ UNCHANGED svcVars
  \/ \E d \in 1..MaxDownloads, k \in 1..MaxBatch : downloadTimer(d, k) /\ UNCHANGED svcVars

SpecDownload == Init /\ [][NextDownload]_vars

(* --------------------------- conversion history ------------------------ *)

\* Array.prototype.slice(0, end)
SliceTo(seq, end) == SubSeq(seq, 1, IF Len(seq) < end THEN Len(seq) ELSE end)

\* The conversions handed to addToHistory: the next one in turn, to either
\* target format
NextConversions ==
  LET last == IF conversionHistory = <<>> THEN 0 ELSE conversionHistory[1].id
  IN {[id |-> last + 1, targetFormat |-> f] : f \in {"JPG", "GIF"}}

\* an addToHistory that keeps every earlier entry
addToHistoryKeepsAll(conversion) ==
  /\ conversion.id <= MaxConversions
  /\ conversionHistory' = <<conversion>> \o conversionHistory
  /\ localStorage' = conversionHistory'
  /\ UNCHANGED <<hookVars, svcVars, downloads>>

\* App: addToHistory(conversion), and the effect that saves the history to
\* localStorage once conversionHistory has changed
addToHistory(conversion) ==
  /\ conversion.id <= MaxConversions
  /\ conversionHistory' = <<conversion>> \o SliceTo(conversionHistory, historyKeep)
  /\ localStorage' = conversionHistory'
  /\ UNCHANGED <<hookVars, svcVars, downloads>>

\* App: onClearHistory, and the saving effect
clearHistory ==
  /\ conversionHistory' = <<>>
  /\ localStorage' = conversionHistory'
  /\ UNCHANGED <<hookVars, svcVars, downloads>>

\* The page is loaded again: conversionHistory starts empty, the loading
\* effect reads the saved history and the saving effect writes it back
mountApp ==
  /\ conversionHistory' = localStorage
  /\ localStorage' = localStorage
  /\ UNCHANGED <<hookVars, svcVars, downloads>>

NextHistory ==
  \/ \E conversion \in NextConversions : addToHistory(conversion)
  \/ clearHistory
  \/ mountApp

SpecHistory == Init /\ [][NextHistory]_vars

(* ---------------------- files and format selection -------------------- *)

\* The bundled format catalog (data/conversions): the formats of a category
\* and the targets of a source format; an unknown key has none. One
\* category of three formats, each convertible to the other two.
Formats == {"PNG", "JPG", "GIF"}

Categories == {"images"}

conversionCategories(category) == IF category \in Categories THEN Formats ELSE {}

supportedConversions(sourceFormat) ==
  IF sourceFormat \in Formats THEN Formats \ {sourceFormat} ELSE {}

\* ConversionPage: handleFormatChange(type, format)
handleFormatChange(type, format) ==
  IF type = "source"
  THEN setConversion(state.selectedCategory, format, NULL)
  ELSE setConversion(state.selectedCategory, state.sourceFormat, format)

\* The hook's operations on the working batch and on the selection, with no
\* conversion running: any file arrays, any arguments of setConversion, and
\* the format buttons the conversion page renders.
NextSetup ==
  \/ \E fs \in SeqsOf(FileUniverse, 1, MaxFiles) : addFiles(fs) /\ UNCHANGED <<svcVars, appVars>>
  \/ \E fs \in SeqsOf(FileUniverse, 0, MaxBatch) : setFiles(fs) /\ UNCHANGED <<svcVars, appVars>>
  \/ \E k \in 1..MaxBatch : removeFile(k) /\ UNCHANGED <<svcVars, appVars>>
  \/ clearFiles /\ UNCHANGED <<svcVars, appVars>>
  \/ \E category \in Categories, sourceFormat, targetFormat \in Formats \cup {NULL} :
       setConversion(category, sourceFormat, targetFormat) /\ UNCHANGED <<svcVars, appVars>>
  \/ \E format \in conversionCategories(state.selectedCategory) :
       handleFormatChange("source", format) /\ UNCHANGED <<svcVars, appVars>>
  \/ \E format \in supportedConversions(state.sourceFormat) :
       handleFormatChange("target", format) /\ UNCHANGED <<svcVars, appVars>>
  \/ resetConversion /\ UNCHANGED <<svcVars, appVars>>

SpecSetup == Init /\ [][NextSetup]_vars

(* ------------------------------- claims -------------------------------- *)

\* the convertFiles() invocations that entered Converting and have not completed
InFlight == {c \in CallIds : calls[c].pc \in {"mock", "resolved", "rejected"}}

\* C1: at most one conversion batch is in flight at any time: at most one
\* convertFiles() invocation has entered Converting and not yet completed.
C1_SingleFlight == Cardinality(InFlight) <= 1

\* C2: calling convert() while a conversion is still Converting leaves the
\* store unchanged and starts no conversion.
C2_SecondConvertIsNoOp ==
  [][(state.isConverting /\ InFlight # {} /\ convertFiles)
       => (state' = state /\ calls' = calls)]_vars

\* the store as resetConversion() leaves the job: nothing converting,
\* progress 0, no results
Quiescent(st) ==
  st.progress = 0 /\ st.conversionResults = <<>> /\ ~st.isConverting

\* C3: resetConversion() while Converting is a hard cancellation: with a
\* conversion still in flight and the store reset, no step but a new
\* convert() changes progress, conversionResults or isConverting.
C3_ResetIsHardCancellation ==
  [][(Quiescent(state) /\ InFlight # {} /\ ~convertFiles) => Quiescent(state')]_vars

\* the values onProgress received from call c do not go down in this step
ProgressStepMonotone(c) ==
  (svc[c].reported # <<>> /\ svc'[c].reported # <<>>)
    => svc'[c].reported[1] >= svc[c].reported[1]

\* C4: within one call the progress values reported form a non-decreasing
\* sequence that ends at exactly 100 on completion, on the mock path, on the
\* backend path and when a backend attempt falls back to the mock engine.
C4_ProgressMonotoneTo100 ==
  /\ [][\A c \in SvcIds : ProgressStepMonotone(c)]_vars
  /\ [](\A c \in SvcIds :
          (svc[c].kind = "convert" /\ svc[c].outcome = "resolved")
            => svc[c].reported = <<100>>)

\* C5: a terminal `failed` status is a conversion failure, not a connectivity
\* error: the call ends as a failure without results, and the mock engine is
\* not invoked for it.
C5_FailedStatusIsJobFailure ==
  \A c \in SvcIds :
    svc[c].lastStatus = "failed"
      => /\ svc[c].mockCalls = 0
         /\ svc[c].pc = "done"
         /\ svc[c].outcome = "rejected"
         /\ svc[c].results = <<>>

\* call c's backend flow throws a connectivity error in this step
ConnectivityErrorStep(c) ==
  svc[c].pc \in {"upload", "status"} /\ svc'[c].lastStatus = "error"

\* C6: when the backend flow throws a connectivity error (at the upload or
\* mid-poll) the service sets the memoized availability to unavailable and
\* runs the mock engine on the same files and formats; within one call the
\* mock engine is invoked at most once, the upload is posted at most once
\* and no backend request follows the fallback.
C6_FallbackOnce ==
  /\ [](\A c \in SvcIds : svc[c].mockCalls <= 1 /\ svc[c].uploads <= 1)
  /\ [][\A c \in SvcIds :
          ConnectivityErrorStep(c)
            => /\ backendAvailable' = "false"
               /\ svc'[c].pc = "mock"
               /\ svc'[c].mockCalls = 1
               /\ svc'[c].mockArgs = svc[c].args]_vars
  /\ [][\A c \in SvcIds :
          svc[c].mockCalls = 1
            => /\ svc'[c].pc \in {"mock", "done"}
               /\ svc'[c].uploads = svc[c].uploads
               /\ svc'[c].mockCalls = 1]_vars

\* C6 witness: a poll failed after the backend had reported progress 50,
\* and the mock engine has been entered with the call's arguments
C6_Witness ==
  \E c \in SvcIds :
    /\ svc[c].lastStatus = "error"
    /\ svc[c].uploads = 1
    /\ svc[c].reported = <<50>>
    /\ svc[c].pc = "mock"
    /\ svc[c].mockArgs = svc[c].args
    /\ backendAvailable = "false"

\* C7: after a health probe has failed the availability stays memoized as
\* unavailable, and a call made after the failure issues no checkHealth()
\* and no upload.
C7_ProbeFailureIsMemoized ==
  /\ SomeProbeFailed => backendAvailable = "false"
  /\ \A c \in SvcIds :
       svc[c].afterFailedProbe => (svc[c].healthChecks = 0 /\ svc[c].uploads = 0)

\* checkHealth() calls issued so far
RECURSIVE HealthChecksUpTo(_)
HealthChecksUpTo(c) ==
  IF c = 0 THEN 0 ELSE svc[c].healthChecks + HealthChecksUpTo(c - 1)

\* C8: checkHealth() is issued at most once in the process lifetime, over
\* any interleaving of convertFiles and getSupportedFormats calls.
C8_AtMostOneProbe == HealthChecksUpTo(MaxSvcCalls) <= 1

\* C9: convert() with zero files, or with sourceFormat or targetFormat
\* unset, leaves the store unchanged and invokes no conversion.
C9_InvalidConvertIsNoOp ==
  [][((\/ Len(state.selectedFiles) = 0
       \/ state.sourceFormat = NULL
       \/ state.targetFormat = NULL) /\ convertFiles)
       => (state' = state /\ calls' = calls)]_vars

\* C9 witness: a convert() was rejected with files present and the source
\* format set, the target format being unset
C9_Witness ==
  /\ error = ValidationMessage
  /\ Len(state.selectedFiles) > 0
  /\ state.sourceFormat # NULL
  /\ state.targetFormat = NULL
  /\ state = [initialState EXCEPT !.darkMode = state.darkMode,
                                  !.selectedCategory = state.selectedCategory,
                                  !.sourceFormat = state.sourceFormat,
                                  !.selectedFiles = state.selectedFiles,
                                  !.previewUrls = state.previewUrls]

\* C10: every convert() that passes validation emits the info notification
\* and then exactly one terminal notification, success or error: none while
\* it is in flight, one once it has returned.
C10_OneTerminalNotification ==
  \A c \in CallIds :
    /\ calls[c].pc = "idle" => calls[c].emitted = <<>>
    /\ c \in InFlight => calls[c].emitted = <<"info">>
    /\ calls[c].pc = "done"
         => calls[c].emitted \in {<<"info", "success">>, <<"info", "error">>}

\* C10 witness: one call has returned with success and another with error
C10_Witness ==
  \E c, d \in CallIds :
    /\ calls[c].pc = "done" /\ calls[c].emitted = <<"info", "success">>
    /\ calls[d].pc = "done" /\ calls[d].emitted = <<"info", "error">>

\* the results are those of the first files of the batch, in the batch's order
ResultsOfPrefix(results, files) ==
  /\ Len(results) <= Len(files)
  /\ \A k \in 1..Len(results) : results[k].originalFile = files[k]

\* C11: the mock engines (the hook's mockConvertFiles and
\* MockConversionApi.convertFiles) yield one result per file of the batch, in
\* the batch's order, each result's originalFile being the file at its
\* position; a file whose outcome is success = false has its result like
\* any other and the files after it are converted. While the engine runs
\* the results are those of the files done so far; what the hook stores on
\* completion is the engine's list.
C11_MockOneResultPerFile ==
  /\ [](\A c \in CallIds :
          WellFormed(calls[c].files)
            => /\ calls[c].pc # "rejected"
               /\ ResultsOfPrefix(calls[c].results, calls[c].files)
               /\ calls[c].pc = "mock" => Len(calls[c].results) = calls[c].i
               /\ calls[c].pc = "resolved"
                    => Len(calls[c].results) = Len(calls[c].files))
  /\ [][\A c \in CallIds :
          convertFilesResolved(c)
            => /\ state'.conversionResults = calls[c].results
               /\ Len(state'.conversionResults) = Len(state.selectedFiles)]_vars
  /\ [](\A c \in SvcIds :
          (svc[c].mockCalls = 1 /\ WellFormed(svc[c].args.files))
            => /\ svc[c].outcome # "rejected"
               /\ ResultsOfPrefix(svc[c].results, svc[c].args.files)
               /\ svc[c].pc = "mock" => Len(svc[c].results) = svc[c].i
               /\ svc[c].outcome = "resolved"
                    => Len(svc[c].results) = Len(svc[c].args.files))

\* C11 witness: a batch of two files of the same name and a third has been
\* converted and stored; the first file's conversion failed, the others'
\* succeeded
C11_Witness ==
  /\ ~state.isConverting
  /\ state.selectedFiles = <<TxtFileB, TxtFile, TxtFileB>>
  /\ Len(state.conversionResults) = 3
  /\ ~state.conversionResults[1].success
  /\ state.conversionResults[2].success
  /\ state.conversionResults[3].success
  /\ state.conversionResults[1].originalFile = TxtFileB
  /\ state.conversionResults[2].originalFile = TxtFile

\* C12: on the backend path the results are delivered in the order of the
\* input batch, and each result's originalFile is the input file the result
\* was produced from, also when two files share a name or the server lists
\* the outcomes in another order.
C12_BackendResultsInInputOrder ==
  \A c \in SvcIds :
    (svc[c].kind = "convert" /\ svc[c].outcome = "resolved" /\ svc[c].mockCalls = 0)
      => /\ Len(svc[c].results) = Len(svc[c].args.files)
         /\ \A k \in 1..Len(svc[c].results) :
              /\ svc[c].order[k] = k
              /\ svc[c].results[k].originalFile = svc[c].args.files[svc[c].order[k]]

\* C13: resetConversion() after any sequence of addFiles, setFiles,
\* removeFile and clearFiles releases every preview handle created: the
\* handles revoked are all the handles created.
C13_ResetReleasesEveryPreview ==
  [][resetConversion
       => objectUrls'.revoked = 1..objectUrls'.created]_vars

\* a ConversionResult as the data model has it
ResultWellFormed(r) ==
  /\ r.success => (r.convertedFileName # NoName /\ r.downloadUrl # NULL /\ r.error = NULL)
  /\ ~r.success => r.error # NULL

\* C14: every ConversionResult, of the hook's mock engine, of
\* MockConversionApi and of the backend path, has convertedFileName and
\* downloadUrl present and error null when success is true, and error
\* present when success is false.
C14_ResultsWellFormed ==
  /\ \A k \in 1..Len(state.conversionResults) :
       ResultWellFormed(state.conversionResults[k])
  /\ \A c \in CallIds : \A k \in 1..Len(calls[c].results) :
       ResultWellFormed(calls[c].results[k])
  /\ \A c \in SvcIds : \A k \in 1..Len(svc[c].results) :
       ResultWellFormed(svc[c].results[k])

\* C15: targetFormat is set only if sourceFormat is set and the target is
\* among the catalog's targets of the source; so a setConversion whose
\* source invalidates the target leaves targetFormat null.
C15_TargetValidForSource ==
  state.targetFormat # NULL
    => /\ state.sourceFormat # NULL
       /\ state.targetFormat \in supportedConversions(state.sourceFormat)

\* C16: while a batch is Converting, addFiles, setFiles and removeFile do
\* not change the working batch: selectedFiles and previewUrls stay as they
\* were when convert() entered Converting.
C16_BatchFrozenWhileConverting ==
  [][(/\ state.isConverting
      /\ InFlight # {}
      /\ \/ \E fs \in BatchInputs(0) : addFiles(fs) \/ setFiles(fs)
         \/ \E k \in 1..MaxFiles : removeFile(k))
       => /\ state'.selectedFiles = state.selectedFiles
          /\ state'.previewUrls = state.previewUrls]_vars

\* C17: every conversion that was started eventually completes, whatever
\* the backend replies, also when it keeps answering pending or processing:
\* the call does not stay converting for ever.
C17_ConversionTerminates ==
  \A c \in SvcIds :
    (svc[c].kind = "convert" /\ svc[c].pc # "done") ~> (svc[c].pc = "done")

\* the newest notification of the store
LastNotification(st) == st.notifications[Len(st.notifications)]

\* C18: an exception thrown by the conversion is never propagated to the
\* caller of convert(): the call catches it and returns, the batch is
\* Completed with zero results and isConverting false, and an error
\* notification carries the exception's message.
C18_ExceptionBecomesErrorNotification ==
  [][\A c \in CallIds :
       (calls[c].pc = "rejected" /\ calls'[c].pc # "rejected")
         => /\ calls'[c].pc = "done"
            /\ ~state'.isConverting
            /\ state'.conversionResults = <<>>
            /\ state'.progress = 100
            /\ Len(state'.notifications) = Len(state.notifications) + 1
            /\ LastNotification(state').type = "error"
            /\ LastNotification(state').message = ErrorMessage(calls[c].thrown)
            /\ calls[c].thrown = TypeErrorMessage
            /\ error' = calls[c].thrown]_vars

\* C18 witness: a conversion threw while it was converting and the call has
\* returned; the store is Completed without results and its newest
\* notification is the error with the exception's message
C18_Witness ==
  /\ \E c \in CallIds : calls[c].pc = "done" /\ calls[c].emitted = <<"info", "error">>
  /\ InFlight = {}
  /\ ~state.isConverting
  /\ state.conversionResults = <<>>
  /\ error = TypeErrorMessage
  /\ Len(state.notifications) > 0
  /\ LastNotification(state).type = "error"
  /\ LastNotification(state).message = ErrorMessage(TypeErrorMessage)

\* call c's poll() gets the answer to a status request in this step
StatusAnswered(c) == svc'[c].requests < svc[c].requests

\* C19: pollConversionStatus settles once: it resolves only on completed,
\* rejects on failed, on an unknown status and on a request error, and sets
\* the next poll only after pending or processing; until it has settled
\* exactly one status request or poll timer is outstanding, and once it has
\* settled none is, so no status request follows.
C19_PollSettlesOnce ==
  /\ [](\A c \in SvcIds :
          /\ svc[c].requests + svc[c].timers <= 1
          /\ svc[c].pollSettled # "none" => svc[c].requests + svc[c].timers = 0
          /\ (svc[c].uploads = 1 /\ svc[c].pc \in {"status", "timer"})
               => (svc[c].pollSettled = "none" /\ svc[c].requests + svc[c].timers = 1))
  /\ [][\A c \in SvcIds :
          /\ svc[c].pollSettled # "none" => svc'[c].pollSettled = svc[c].pollSettled
          /\ StatusAnswered(c)
               => /\ svc'[c].lastStatus = "completed" <=> svc'[c].pollSettled = "resolved"
                  /\ svc'[c].lastStatus \in {"failed", "cancelled", "error"}
                       <=> svc'[c].pollSettled = "rejected"
                  /\ svc'[c].lastStatus \in {"pending", "processing"}
                       <=> svc'[c].timers = 1]_vars

\* C19 witness: a poll was answered with pending, the timer fired, and the
\* answer to the second status request was a status the client does not
\* know: the promise is rejected with nothing outstanding
C19_Witness ==
  \E c \in SvcIds :
    /\ svc[c].lastStatus = "cancelled"
    /\ svc[c].reported # <<>>
    /\ svc[c].job = 50
    /\ svc[c].pollSettled = "rejected"
    /\ svc[c].requests = 0
    /\ svc[c].timers = 0

\* the notification with this id is in the store
Shown(id) == \E k \in 1..Len(state.notifications) : state.notifications[k].id = id

\* C20: every notification added is eventually removed by the auto-expiry
\* once no further notifications are added, also a notification that was
\* followed by a newer one before its own delay had passed.
C20_NotificationsExpire ==
  \A id \in 1..(2 * MaxCalls) : Shown(id) ~> ~Shown(id)

\* C20 witness: the first notification is still shown after the second,
\* added while the first was shown, has expired
C20_Witness ==
  /\ nextId = 3
  /\ Len(state.notifications) = 1
  /\ state.notifications[1].id = 1

\* C21: a convert() that passes validation takes the store to Converting
\* with progress 0 and the earlier results cleared, and appends the info
\* notification describing the batch (file count, source and target),
\* before the engine is invoked and before any progress update of the call:
\* when the call reaches its first await the engine has been entered and
\* has reported nothing and produced nothing yet.
C21_StartBeforeEngine ==
  [][(~ValidationFails(state) /\ convertFiles)
       => /\ state'.isConverting
          /\ state'.progress = 0
          /\ state'.conversionResults = <<>>
          /\ Len(state'.notifications) = Len(state.notifications) + 1
          /\ LastNotification(state').type = "info"
          /\ LastNotification(state').message =
               StartingMessage(Len(state.selectedFiles), state.sourceFormat,
                               state.targetFormat)
          /\ \E c \in CallIds :
               /\ calls[c].pc = "idle"
               /\ calls'[c].pc = "mock"
               /\ calls'[c].files = state.selectedFiles
               /\ calls'[c].i = 0 /\ calls'[c].step = 0
               /\ calls'[c].results = <<>>]_vars

\* C21 witness: a first conversion has completed with success and a second
\* has just been started: Converting, progress 0, no results, the info
\* notification newest, the engine at its first step
C21_Witness ==
  /\ calls[1].pc = "done" /\ calls[1].emitted = <<"info", "success">>
  /\ calls[2].pc = "mock" /\ calls[2].i = 0 /\ calls[2].step = 0
  /\ state.isConverting
  /\ state.progress = 0
  /\ state.conversionResults = <<>>
  /\ LastNotification(state).type = "info"
  /\ Len(state.notifications) = 3

\* C22: resetConversion() from any state returns the store to Idle: the
\* category and both formats null, selectedFiles, previewUrls and
\* conversionResults empty, progress 0, isConverting false; notifications
\* and darkMode are as they were.
C22_ResetReturnsToIdle ==
  [][resetConversion
       => /\ state'.selectedCategory = NULL
          /\ state'.sourceFormat = NULL
          /\ state'.targetFormat = NULL
          /\ state'.selectedFiles = <<>>
          /\ state'.previewUrls = <<>>
          /\ state'.conversionResults = <<>>
          /\ state'.progress = 0
          /\ ~state'.isConverting
          /\ state'.notifications = state.notifications
          /\ state'.darkMode = state.darkMode]_vars

\* C22 witness: the store was reset while a conversion was in flight, in
\* dark mode and with the conversion's info notification shown
C22_Witness ==
  /\ InFlight # {}
  /\ state = [initialState EXCEPT !.darkMode = TRUE,
                                  !.notifications = state.notifications]
  /\ Len(state.notifications) = 1
  /\ state.notifications[1].type = "info"

\* the job fields of the store are the same after this step
JobUnchanged ==
  /\ state'.isConverting = state.isConverting
  /\ state'.progress = state.progress
  /\ state'.conversionResults = state.conversionResults
  /\ state'.selectedFiles = state.selectedFiles
  /\ state'.previewUrls = state.previewUrls
  /\ state'.selectedCategory = state.selectedCategory
  /\ state'.sourceFormat = state.sourceFormat
  /\ state'.targetFormat = state.targetFormat

\* the downloads that the k-th timer of the d-th downloadAll() has made
DownloadsBy(d, k) ==
  {j \in 1..Len(downloads.done) : downloads.done[j].timer = <<d, k>>}

\* C23: downloadAll() triggers exactly one download for each result with
\* success = true and none for a result with success = false: for every
\* result of the call, a successful one has its timer pending or has been
\* downloaded once, never both, and a failed one has neither; and
\* downloadAll, downloadResult and the timers leave the job state
\* (isConverting, progress, conversionResults, selectedFiles, selection)
\* as it is.
C23_DownloadAllOncePerSuccess ==
  /\ [](\A d \in 1..Len(downloads.calls) :
          \A k \in 1..Len(downloads.calls[d]) :
            LET pending == IF <<d, k>> \in downloads.timers THEN 1 ELSE 0
                made == Cardinality(DownloadsBy(d, k))
            IN /\ downloads.calls[d][k].success => pending + made = 1
               /\ ~downloads.calls[d][k].success => pending + made = 0
               /\ \A j \in DownloadsBy(d, k) :
                    downloads.done[j].result = downloads.calls[d][k])
  /\ [][(\/ downloadAll
         \/ \E k \in 1..MaxBatch : downloadResult(k)
         \/ \E d \in 1..MaxDownloads, k \in 1..MaxBatch : downloadTimer(d, k))
          => JobUnchanged]_vars

\* C23 witness: downloadAll() on three results, the first failed, and both
\* its timers have fired: two downloads, of the second and the third result
C23_Witness ==
  /\ Len(downloads.calls) = 1
  /\ Len(downloads.calls[1]) = 3
  /\ ~downloads.calls[1][1].success
  /\ downloads.calls[1][2].success
  /\ downloads.calls[1][3].success
  /\ downloads.timers = {}
  /\ Len(downloads.done) = 2
  /\ downloads.done[1].timer = <<1, 2>>
  /\ downloads.done[2].timer = <<1, 3>>

\* v lies in [i/n*100, (i+1)/n*100)
InHalfOpenRange(v, i, n) == v * n >= i * 100 /\ v * n < (i + 1) * 100

\* v is within rounding (one half) of the closed range [i/n*100, (i+1)/n*100]
InRoundedRange(v, i, n) ==
  2 * v * n >= 2 * i * 100 - n /\ 2 * v * n <= 2 * (i + 1) * 100 + n

\* C24: in the mock engines every progress value reported while simulating
\* file i of n (0-based) lies in the half-open range [i/n*100, (i+1)/n*100).
C24_ProgressInHalfOpenRange ==
  /\ [][\A c \in CallIds :
          mockStep(c)
            => InHalfOpenRange(state'.progress, calls[c].i, Len(calls[c].files))]_vars
  /\ [][\A c \in SvcIds :
          mockApiTick(c)
            => InHalfOpenRange(svc'[c].reported[1], svc[c].i,
                               Len(svc[c].args.files))]_vars

\* C24 as amended: every progress value reported while simulating file i of
\* n is the rounding of a value of the closed range [i/n*100, (i+1)/n*100]:
\* the file's last report is the range's upper end, 100 for the last file.
C24_ProgressInRoundedRange ==
  /\ [][\A c \in CallIds :
          mockStep(c)
            => InRoundedRange(state'.progress, calls[c].i, Len(calls[c].files))]_vars
  /\ [][\A c \in SvcIds :
          mockApiTick(c)
            => InRoundedRange(svc'[c].reported[1], svc[c].i,
                              Len(svc[c].args.files))]_vars

\* C24 witness: the second of three files has made its last report, 67,
\* the rounding of 200/3, and the third file is about to start
C24_Witness ==
  \E c \in CallIds :
    /\ calls[c].pc = "mock"
    /\ Len(calls[c].files) = 3
    /\ calls[c].i = 2
    /\ calls[c].step = 0
    /\ state.progress = 67

\* C25: after any sequence of addToHistory calls the persisted history holds
\* at most 10 entries, the most recently added first and the oldest
\* dropped: each call puts its entry in front of the entries persisted
\* before and keeps the first 10 of them.
C25_HistoryKeepsLastTen ==
  /\ [](Len(localStorage) <= 10)
  /\ [][\A conversion \in NextConversions :
          addToHistory(conversion)
            => /\ localStorage'[1] = conversion
               /\ Len(localStorage') = IF Len(localStorage) < 10
                                       THEN Len(localStorage) + 1 ELSE 10
               /\ \A k \in 2..Len(localStorage') :
                    localStorage'[k] = localStorage[k - 1]]_vars

\* C25 witness: the twelfth conversion was added: the history holds the
\* last ten, the twelfth first and the third last
C25_Witness ==
  /\ Len(localStorage) = 10
  /\ localStorage[1].id = 12
  /\ localStorage[10].id = 3
  /\ conversionHistory = localStorage

\* C26: the memoized backendAvailable never changes from unavailable
\* (false) back to available (true) or unknown (null), in any interleaving
\* of concurrent calls, also when a health probe completes after another
\* call has marked the backend unavailable.
C26_UnavailableIsSticky ==
  [][backendAvailable = "false" => backendAvailable' = "false"]_vars

C28_NoDoubleRevokeNoStaleHandle ==
  /\ objectUrls.revokes = Cardinality(objectUrls.revoked)
  /\ \A i \in 1..Len(state.previewUrls) :
       state.previewUrls[i] # NullUrl =>
         /\ state.previewUrls[i] \in 1..objectUrls.created
         /\ state.previewUrls[i] \notin objectUrls.revoked

\* one handle was revoked by removeFile or clearFiles, and the batch holds
\* a later one that is still live
C28_Witness ==
  /\ objectUrls.revoked = {1}
  /\ objectUrls.revokes = 1
  /\ objectUrls.created = 2
  /\ \E i \in 1..Len(state.previewUrls) : state.previewUrls[i] = 2

\* C29: whenever conversionResults is non-empty, isConverting is false,
\* under every interleaving of convert(), progress callbacks, completions,
\* clearFiles and resetConversion.
C29_ResultsImplyNotConverting ==
  Len(state.conversionResults) > 0 => ~state.isConverting

\* the results of one conversion are in the store while another call of
\* convertFiles, started before they arrived, is still running
C29_Witness ==
  /\ Len(state.conversionResults) > 0
  /\ ~state.isConverting
  /\ \E c, d \in CallIds :
       /\ calls[c].pc = "done" /\ calls[c].emitted = <<"info", "success">>
       /\ calls[d].pc = "mock"

====
